---- MODULE Spec2Model ----
(***************************************************************************)
(* Model of sqlx.go: the reflection-driven row-to-struct mapping           *)
(* (getFieldmap, getFields, setValues, StructScan, Row.StructScan,         *)
(* Rows.StructScan), the process-wide fieldmapCache and the generic        *)
(* functions Select and Get.                                               *)
(*                                                                         *)
(* Strings are sequences of ASCII codes, so that strings.ToLower is a real *)
(* conversion.  A Go type is a sequence of constructors ending in a base   *)
(* name: <<"ptr","slice","User">> is *[]User.                              *)
(***************************************************************************)
EXTENDS Integers, Sequences, FiniteSets, TLC

\* ---------------------------------------------------------------- bounds
MaxDepth == 3      \* pointer/slice constructors around a base type
MaxCols == 2       \* columns a cursor reports
MaxRows == 2       \* rows a cursor delivers
NCallers == 2      \* concurrent callers of getFieldmap

\* ------------------------------------------------------------- strings
s_ID == <<73, 68>>                    \* "ID"
s_id == <<105, 100>>                  \* "id"
s_Name == <<78, 97, 109, 101>>        \* "Name"
s_name == <<110, 97, 109, 101>>       \* "name"
s_Email == <<69, 109, 97, 105, 108>>  \* "Email"
s_email == <<101, 109, 97, 105, 108>> \* "email"
s_A == <<65>>                         \* "A"
s_C == <<67>>                         \* "C"
s_Cc == <<67, 99>>                    \* "Cc"
s_x == <<120>>                        \* "x"
s_empty == <<>>                       \* ""

\* strings.ToLower on ASCII
ToLower(s) == [i \in DOMAIN s |-> IF s[i] \in 65..90 THEN s[i] + 32 ELSE s[i]]

\* ---------------------------------------------------------------- types
\* struct types of the application: declared field name, `db` tag, Go type
StructDefs ==
  [ User |-> << [name |-> s_ID,    tag |-> s_id,    typ |-> "int"],
                [name |-> s_Name,  tag |-> s_empty, typ |-> "string"] >>,
    Dup  |-> << [name |-> s_A,     tag |-> s_name,  typ |-> "int"],
                [name |-> s_Name,  tag |-> s_empty, typ |-> "string"],
                [name |-> s_C,     tag |-> s_Cc,    typ |-> "int"] >>,
    Misc |-> << [name |-> s_Email, tag |-> s_empty, typ |-> "RawBytes"],
                [name |-> s_x,     tag |-> s_empty, typ |-> "int"] >> ]

StructNames == DOMAIN StructDefs
BaseNames == StructNames \cup {"int"}

RECURSIVE Wrappers(_)
Wrappers(n) ==
  IF n = 0 THEN {<<>>}
  ELSE LET W == Wrappers(n - 1)
       IN  W \cup {<<c>> \o w : c \in {"ptr", "slice"}, w \in {u \in W : Len(u) = n - 1}}

\* every Go type of the model
GoTypes == {w \o <<b>> : w \in Wrappers(MaxDepth), b \in BaseNames}

\* reflect.Type.Kind
Kind(t) ==
  IF Head(t) \in {"ptr", "slice"} THEN Head(t)
  ELSE IF Head(t) = "int" THEN "int" ELSE "struct"

\* reflect.Type.Elem: panics unless the kind is Ptr or Slice (callers test CanElem)
CanElem(t) == Kind(t) \in {"ptr", "slice"}
Elem(t) == Tail(t)

\* reflect.Type.NumField / Field(i): panic unless the kind is Struct
Fields(t) == StructDefs[Head(t)]
NumField(t) == Len(Fields(t))

\* a field reached through reflection can be handed out with
\* Addr().Interface() only when it is exported (upper-case first letter)
Exported(f) == f.name[1] \in 65..90

\* --------------------------------------------------------------- errors
NoErr == [kind |-> "nil", name |-> s_empty]
Err(k) == [kind |-> k, name |-> s_empty]
ErrName(k, n) == [kind |-> k, name |-> n]

\* ------------------------------------------------------- pure functions
\* BaseSliceType: a Ptr is unwrapped and falls through to the empty Slice case
BaseSliceType(t) ==
  CASE Kind(t) = "ptr"   -> [t |-> Elem(t), err |-> NoErr]
    [] Kind(t) = "slice" -> [t |-> t, err |-> NoErr]
    [] OTHER             -> [t |-> t, err |-> Err("DestMustBeSlice")]

\* BaseStructType: a Ptr is unwrapped and falls through to the empty Struct case
BaseStructType(t) ==
  CASE Kind(t) = "ptr"    -> [t |-> Elem(t), err |-> NoErr]
    [] Kind(t) = "struct" -> [t |-> t, err |-> NoErr]
    [] OTHER              -> [t |-> t, err |-> Err("DestMustBeStruct")]

\* mutant of ResolvedName: the tag is lower-cased like the declared name
ResolvedName_LowerTag(f) == ToLower(IF f.tag # s_empty THEN f.tag ELSE f.name)

\* the name a field is stored under: lower-cased declared name, replaced by
\* the db tag when the tag is not empty
ResolvedName(f) == IF f.tag # s_empty THEN f.tag ELSE ToLower(f.name)

\* fm[name] = i on a Go map: insert or overwrite
MapSet(fm, name, i) ==
  [n \in DOMAIN fm \cup {name} |-> IF n = name THEN i ELSE fm[n]]

EmptyMap == [n \in {} |-> 0]

\* the loop of getFieldmap: for i := 0; i < t.NumField(); i++ { fm[name] = i }
RECURSIVE BuildLoop(_, _, _)
BuildLoop(fs, i, fm) ==
  IF i >= Len(fs) THEN fm
  ELSE BuildLoop(fs, i + 1, MapSet(fm, ResolvedName(fs[i + 1]), i))

BuildFieldmap(t) == BuildLoop(Fields(t), 0, EmptyMap)

\* mutant of getFieldmap: the cache is not looked up, every call builds a
\* fieldmap and stores it
getFieldmap_NoLookup(t, cache) ==
  LET bs == BaseStructType(t)
      res(out, err, fm, built, c) ==
        [out |-> out, err |-> err, fm |-> fm, cache |-> c,
         arg |-> t, key |-> bs.t, built |-> built]
  IN
  IF bs.err # NoErr
  THEN res("err", bs.err, EmptyMap, FALSE, cache)
  ELSE IF Kind(bs.t) # "struct"
  THEN res("panic", NoErr, EmptyMap, FALSE, cache)
  ELSE LET fm == BuildFieldmap(bs.t)
       IN  res("ok", NoErr, fm, TRUE,
               [k \in DOMAIN cache \cup {bs.t} |->
                   IF k = bs.t THEN fm ELSE cache[k]])

\* getFieldmap run without interleaving: result, and the cache afterwards.
\* out = "ok" | "err" | "panic" (NumField on a type that is not a struct)
\* built: the fieldmap returned is a new one (line 656), stored at line 670
getFieldmap(t, cache) ==
  LET bs == BaseStructType(t)
      res(out, err, fm, built, c) ==
        [out |-> out, err |-> err, fm |-> fm, cache |-> c,
         arg |-> t, key |-> bs.t, built |-> built]
  IN
  IF bs.err # NoErr
  THEN res("err", bs.err, EmptyMap, FALSE, cache)
  ELSE IF bs.t \in DOMAIN cache
  THEN res("ok", NoErr, cache[bs.t], FALSE, cache)
  ELSE IF Kind(bs.t) # "struct"
  THEN res("panic", NoErr, EmptyMap, FALSE, cache)
  ELSE LET fm == BuildFieldmap(bs.t)
       IN  res("ok", NoErr, fm, TRUE,
               [k \in DOMAIN cache \cup {bs.t} |->
                   IF k = bs.t THEN fm ELSE cache[k]])

\* no fieldmap was returned
NoGot == [arg |-> <<"int">>, t |-> <<"int">>, inst |-> 0, built |-> FALSE,
          fm |-> EmptyMap]

\* the instances after a getFieldmap call with result g: a built fieldmap is
\* a new instance and the one the cache holds from then on (lines 656, 670);
\* a hit returns the instance the cache holds (lines 652-654)
HeapAfter(h, g) ==
  LET t == g.key
      n == IF t \in DOMAIN h.made THEN h.made[t] + 1 ELSE 1
      put(f, v) == [k \in DOMAIN f \cup {t} |-> IF k = t THEN v ELSE f[k]]
      got(i) == [arg |-> g.arg, t |-> t, inst |-> i, built |-> g.built, fm |-> g.fm]
  IN
  IF g.out # "ok" THEN [h EXCEPT !.got = NoGot]
  ELSE IF g.built THEN [made |-> put(h.made, n), held |-> put(h.held, n), got |-> got(n)]
  ELSE [h EXCEPT !.got = got(h.held[t])]

\* getFields: positions of the columns, or the error naming the first
\* column the fieldmap does not have
RECURSIVE getFieldsLoop(_, _, _, _)
getFieldsLoop(fm, columns, i, fields) ==
  IF i > Len(columns) THEN [fields |-> fields, err |-> NoErr]
  ELSE IF columns[i] \notin DOMAIN fm
  THEN [fields |-> fields, err |-> ErrName("CouldNotFindName", columns[i])]
  ELSE getFieldsLoop(fm, columns, i + 1, [fields EXCEPT ![i] = fm[columns[i]]])

\* mutant of getFields: the position is the column's index, fields[i] = i
getFields_Positional(fm, columns) ==
  LET gf == getFieldsLoop(fm, columns, 1, [i \in 1..Len(columns) |-> 0])
  IN  [gf EXCEPT !.fields = [i \in 1..Len(columns) |-> i - 1]]

\* mutant of getFields: num, _ = fm[name], a missing name is not an error
getFields_NoCheck(fm, columns) ==
  [fields |-> [i \in 1..Len(columns) |->
                 IF columns[i] \in DOMAIN fm THEN fm[columns[i]] ELSE 0],
   err |-> NoErr]

getFields(fm, columns) ==
  getFieldsLoop(fm, columns, 1, [i \in 1..Len(columns) |-> 0])

\* ------------------------------------------------------------ rows/cells
\* the value the driver decodes for column c of row r: every cell differs,
\* and differs from the values a destination holds before the call
CellValue(r, c) == 10 * r + c
PriorValues == {5}

\* a struct value as the sequence of its field values
FilledRec(t, v) == IF Kind(t) = "struct" THEN [i \in 1..NumField(t) |-> v] ELSE <<>>
ZeroRec(t) == FilledRec(t, 0)

\* setValues: values[i] = vptr.Field(field).Addr().Interface().  Field panics
\* when vptr is not a struct, Interface panics on an unexported field.
setValuesPanics(fields, t) ==
  \E i \in 1..Len(fields) :
     \/ Kind(t) # "struct"
     \/ fields[i] + 1 > NumField(t)
     \/ ~Exported(Fields(t)[fields[i] + 1])

\* mutant of setValues: vptr.Field(i) in place of vptr.Field(field)
setValues_ByIndex(fields, t) == [i \in 1..Len(fields) |-> i]

\* setValues: values[i] points at field fields[i] of the struct (a pointer
\* is the 1-based place of the field in the struct value)
setValues(fields, t) == [i \in 1..Len(fields) |-> fields[i] + 1]

\* sql.Rows.Scan writing columns 1..n of row r through the pointers in
\* values, in column order
RECURSIVE ScanInto(_, _, _, _, _)
ScanInto(rec, values, r, i, n) ==
  IF i > n THEN rec
  ELSE ScanInto([rec EXCEPT ![values[i]] = CellValue(r, i)], values, r, i + 1, n)

\* the column lists a cursor can report
ColumnNames == {s_id, s_name, s_email, s_Cc, s_x}
RECURSIVE SeqsUpTo(_, _)
SeqsUpTo(S, n) ==
  IF n = 0 THEN {<<>>}
  ELSE LET P == SeqsUpTo(S, n - 1)
       IN  P \cup {Append(q, e) : q \in {u \in P : Len(u) = n - 1}, e \in S}
ColumnLists == SeqsUpTo(ColumnNames, MaxCols)

\* ------------------------------------------------------------------ state
VARIABLES
  fieldmapCache,  \* var fieldmapCache: reflect.Type -> fieldmap
  pc,             \* position of the sequential caller
  op,             \* "none" | "Select" | "Get" | "Rows"
  dest,           \* the dest argument and the memory it points to
  prior,          \* dest as it was when the call started
  cursor,         \* the sql.Rows the queryer returned
  loc,            \* locals of the running scan (base, isPtr, fields, ...)
  ret,            \* how the call ended: return with err, or panic
  rowsObj,        \* the fields of an sqlx.Rows: started, fields
  fmHeap,         \* the fieldmap instances of the sequential caller: how many
                  \* were made per type, which one the cache holds, and the
                  \* one the latest getFieldmap call returned
  cpc, carg, ctype, cfm, cret, raced, crashed   \* concurrent getFieldmap callers

seqVars == <<pc, op, dest, prior, cursor, loc, ret, rowsObj, fmHeap>>
concVars == <<cpc, carg, ctype, cfm, cret, raced, crashed>>
vars == <<fieldmapCache, pc, op, dest, prior, cursor, loc, ret, rowsObj, fmHeap,
          cpc, carg, ctype, cfm, cret, raced, crashed>>

Callers == 1..NCallers

NoCursor == [exists |-> FALSE, open |-> FALSE, known |-> FALSE,
             columns |-> <<>>, pos |-> 0, onRow |-> FALSE, calls |-> <<>>]
NewCursor == [exists |-> TRUE, open |-> TRUE, known |-> FALSE,
              columns |-> <<>>, pos |-> 0, onRow |-> FALSE, calls |-> <<>>]
NoDest == [type |-> <<"int">>, isNil |-> FALSE, slice |-> <<>>, rec |-> <<>>]
NoLoc == [base |-> <<"int">>, isPtr |-> FALSE, fm |-> EmptyMap, fields |-> <<>>,
          scanErr |-> FALSE]
NoRet == [kind |-> "none", err |-> NoErr]
NoRows == [started |-> FALSE, fields |-> <<>>, nvalues |-> 0]
Return(e) == [kind |-> "return", err |-> e]
Panic == [kind |-> "panic", err |-> NoErr]

\* the value behind a dest argument of type dt: pre-filled with v when pre
MakeDest(dt, isNil, pre, v) ==
  LET live == Kind(dt) = "ptr" /\ ~isNil
      et == IF Kind(dt) = "ptr" THEN Elem(dt) ELSE dt
      st == IF Kind(et) = "slice"
            THEN (IF Kind(Elem(et)) = "ptr" THEN Elem(Elem(et)) ELSE Elem(et))
            ELSE et
  IN [type |-> dt, isNil |-> isNil /\ Kind(dt) = "ptr",
      slice |-> IF live /\ Kind(et) = "slice" /\ pre THEN <<FilledRec(st, v)>> ELSE <<>>,
      rec |-> IF live /\ Kind(et) = "struct" THEN FilledRec(et, IF pre THEN v ELSE 0)
              ELSE <<>>]

\* the dest arguments a caller can pass
Dests ==
  {MakeDest(dt, n, pre, v) : dt \in GoTypes, n \in BOOLEAN, pre \in BOOLEAN,
                             v \in PriorValues}

InitSeq ==
  /\ pc = "idle" /\ op = "none" /\ dest = NoDest /\ prior = NoDest
  /\ cursor = NoCursor /\ loc = NoLoc /\ ret = NoRet /\ rowsObj = NoRows
  /\ fmHeap = [made |-> [k \in {} |-> 0], held |-> [k \in {} |-> 0], got |-> NoGot]

InitConc ==
  /\ cpc = [p \in Callers |-> "idle"]
  /\ carg = [p \in Callers |-> <<"int">>]
  /\ ctype = [p \in Callers |-> <<"int">>]
  /\ cfm = [p \in Callers |-> EmptyMap]
  /\ cret = [p \in Callers |-> "none"]
  /\ raced = [p \in Callers |-> FALSE]
  /\ crashed = FALSE

Init == fieldmapCache = [k \in {} |-> EmptyMap] /\ InitSeq /\ InitConc

\* a cursor call recorded in call order
Called(c, name) == [c EXCEPT !.calls = Append(@, name)]

\* rows.Next() returning true: the cursor stands on the next row
NextRow(c) == [Called(c, "Next") EXCEPT !.pos = @ + 1, !.onRow = TRUE]

\* rows.Next() returning false: database/sql closes an exhausted cursor
NextEnd(c) == [Called(c, "Next") EXCEPT !.open = FALSE, !.onRow = FALSE]

\* rows.Close()
CloseCursor(c) == [Called(c, "Close") EXCEPT !.open = FALSE, !.onRow = FALSE]

\* ------------------------------------------------------------------ Select
\* Select, lines 497-501: q.Query; a failed query returns its error
SelectQuery(d) ==
  /\ pc = "idle"
  /\ op' = "Select" /\ dest' = d /\ prior' = d
  /\ loc' = NoLoc /\ rowsObj' = NoRows
  /\ \E ok \in BOOLEAN :
       IF ok
       THEN cursor' = NewCursor /\ ret' = NoRet /\ pc' = "StructScan"
       ELSE cursor' = NoCursor /\ ret' = Return(Err("ErrQuery")) /\ pc' = "done"
  /\ UNCHANGED <<fieldmapCache, fmHeap, concVars>>

\* StructScan, lines 746-766: the destination checks and the fieldmap
StructScanResolve ==
  /\ pc = "StructScan"
  /\ LET dt == dest.type
         sl == BaseSliceType(dt)
     IN
     IF Kind(dt) # "ptr"
     THEN /\ ret' = Return(Err("MustPassPointer")) /\ pc' = "SelectClose"
          /\ UNCHANGED <<loc, fieldmapCache, fmHeap>>
     ELSE IF sl.err # NoErr
     THEN /\ ret' = Return(sl.err) /\ pc' = "SelectClose"
          /\ UNCHANGED <<loc, fieldmapCache, fmHeap>>
     ELSE IF ~CanElem(sl.t)          \* slice.Elem() on a struct or int type
     THEN /\ ret' = Panic /\ pc' = "SelectClose"
          /\ UNCHANGED <<loc, fieldmapCache, fmHeap>>
     ELSE LET bs == BaseStructType(Elem(sl.t))
              g == getFieldmap(bs.t, fieldmapCache)
          IN
          IF bs.err # NoErr
          THEN /\ ret' = Return(bs.err) /\ pc' = "SelectClose"
               /\ UNCHANGED <<loc, fieldmapCache, fmHeap>>
          ELSE /\ fieldmapCache' = g.cache /\ fmHeap' = HeapAfter(fmHeap, g)
               /\ CASE g.out = "err" ->
                         /\ ret' = Return(g.err) /\ pc' = "SelectClose"
                         /\ UNCHANGED loc
                    [] g.out = "panic" ->
                         /\ ret' = Panic /\ pc' = "SelectClose"
                         /\ UNCHANGED loc
                    [] OTHER ->
                         /\ loc' = [loc EXCEPT !.base = bs.t,
                                               !.isPtr = (Kind(Elem(sl.t)) = "ptr"),
                                               !.fm = g.fm]
                         /\ pc' = "StructScanColumns"
                         /\ UNCHANGED ret
  /\ UNCHANGED <<op, dest, prior, cursor, rowsObj, concVars>>

\* StructScan, lines 768-778: rows.Columns() and getFields
StructScanColumns ==
  /\ pc = "StructScanColumns"
  /\ \/ /\ cursor' = Called(cursor, "Columns")
        /\ ret' = Return(Err("ErrColumns")) /\ pc' = "SelectClose"
        /\ UNCHANGED loc
     \/ \E cols \in ColumnLists :
          LET gf == getFields(loc.fm, cols) IN
          /\ cursor' = [Called(cursor, "Columns") EXCEPT !.known = TRUE, !.columns = cols]
          /\ IF gf.err # NoErr
             THEN ret' = Return(gf.err) /\ pc' = "SelectClose" /\ UNCHANGED loc
             ELSE loc' = [loc EXCEPT !.fields = gf.fields]
                  /\ pc' = "StructScanRows" /\ UNCHANGED ret
  /\ UNCHANGED <<fieldmapCache, fmHeap, op, dest, prior, rowsObj, concVars>>

\* reflect.Append(direct, ...) needs direct to be a slice value
CanAppend(d) == Kind(d.type) = "ptr" /\ ~d.isNil /\ Kind(Elem(d.type)) = "slice"

\* mutant of StructScanRowAppend: the result replaces what dest held
StructScanRowAppend_Replace(rec) ==
  IF CanAppend(dest)
  THEN dest' = [dest EXCEPT !.slice = <<rec>>] /\ UNCHANGED <<ret, pc>>
  ELSE ret' = Panic /\ pc' = "SelectClose" /\ UNCHANGED dest

\* StructScan, lines 791-795: the struct (or its pointer) is appended
StructScanRowAppend(rec) ==
  IF CanAppend(dest)
  THEN dest' = [dest EXCEPT !.slice = Append(@, rec)] /\ UNCHANGED <<ret, pc>>
  ELSE ret' = Panic /\ pc' = "SelectClose" /\ UNCHANGED dest

\* mutant of StructScanRowFailed: the error of rows.Scan is not looked at,
\* as in Rows.StructScan, and the loop goes on
StructScanRowFailed_Ignored(rec) ==
  /\ StructScanRowAppend(rec)
  /\ loc' = [loc EXCEPT !.scanErr = TRUE]

\* StructScan, lines 787-790: a failed rows.Scan ends the loop with its
\* error; rec, the struct being filled, is dropped
StructScanRowFailed(rec) ==
  /\ ret' = Return(Err("ErrScan")) /\ pc' = "SelectClose"
  /\ loc' = [loc EXCEPT !.scanErr = TRUE]
  /\ UNCHANGED dest

\* StructScan, lines 779-798: one turn of the loop, or its end
StructScanRow ==
  /\ pc = "StructScanRows"
  /\ \/ \* rows.Next() reports no further row: return nil
        /\ cursor' = NextEnd(cursor)
        /\ ret' = Return(NoErr) /\ pc' = "SelectClose"
        /\ UNCHANGED <<dest, loc>>
     \/ /\ cursor.pos < MaxRows
        /\ LET r == cursor.pos + 1
               n == Len(cursor.columns)
               c1 == NextRow(cursor)
           IN
           IF setValuesPanics(loc.fields, loc.base)
           THEN /\ cursor' = c1 /\ ret' = Panic /\ pc' = "SelectClose"
                /\ UNCHANGED <<dest, loc>>
           ELSE \/ \* rows.Scan fails decoding column j
                   /\ cursor' = Called(c1, "Scan")
                   /\ \E j \in 1..n :
                        StructScanRowFailed(
                          ScanInto(ZeroRec(loc.base), setValues(loc.fields, loc.base),
                                   r, 1, j - 1))
                \/ \* rows.Scan succeeds
                   /\ cursor' = Called(c1, "Scan")
                   /\ StructScanRowAppend(
                        ScanInto(ZeroRec(loc.base), setValues(loc.fields, loc.base),
                                 r, 1, n))
                   /\ UNCHANGED loc
  /\ UNCHANGED <<fieldmapCache, fmHeap, op, prior, rowsObj, concVars>>

\* mutant of SelectClose: Select without its defer rows.Close()
SelectClose_NoClose ==
  /\ pc = "SelectClose"
  /\ pc' = "done"
  /\ UNCHANGED <<fieldmapCache, fmHeap, op, dest, prior, cursor, loc, ret, rowsObj, concVars>>

\* Select, line 504: the deferred rows.Close() runs on return and on panic
SelectClose ==
  /\ pc = "SelectClose"
  /\ cursor' = CloseCursor(cursor)
  /\ pc' = "done"
  /\ UNCHANGED <<fieldmapCache, fmHeap, op, dest, prior, loc, ret, rowsObj, concVars>>

\* --------------------------------------------------------------------- Get
\* DB/Tx/qStmt.QueryRowx, lines 193-196, 279-282, 360-363, called by Get at
\* line 511: &Row{rows: *r, err: err} dereferences the nil *sql.Rows of a
\* failed query
GetQueryRowx(d) ==
  /\ pc = "idle"
  /\ op' = "Get" /\ dest' = d /\ prior' = d
  /\ loc' = NoLoc /\ rowsObj' = NoRows
  /\ \E ok \in BOOLEAN :
       IF ok
       THEN cursor' = NewCursor /\ ret' = NoRet /\ pc' = "RowStructScan"
       ELSE cursor' = NoCursor /\ ret' = Panic /\ pc' = "done"
  /\ UNCHANGED <<fieldmapCache, fmHeap, concVars>>

\* Row.StructScan, lines 702-717: the destination checks and the fieldmap
RowStructScanResolve ==
  /\ pc = "RowStructScan"
  /\ LET dt == dest.type IN
     IF Kind(dt) # "ptr"
     THEN /\ ret' = Return(Err("MustPassPointer")) /\ pc' = "done"
          /\ UNCHANGED <<loc, fieldmapCache, fmHeap>>
     ELSE IF dest.isNil               \* direct.Type() on the zero Value
     THEN /\ ret' = Panic /\ pc' = "done"
          /\ UNCHANGED <<loc, fieldmapCache, fmHeap>>
     ELSE LET bs == BaseStructType(Elem(dt))
              g == getFieldmap(bs.t, fieldmapCache)
          IN
          IF bs.err # NoErr
          THEN /\ ret' = Return(bs.err) /\ pc' = "done"
               /\ UNCHANGED <<loc, fieldmapCache, fmHeap>>
          ELSE /\ fieldmapCache' = g.cache /\ fmHeap' = HeapAfter(fmHeap, g)
               /\ CASE g.out = "err" ->
                         /\ ret' = Return(g.err) /\ pc' = "done"
                         /\ UNCHANGED loc
                    [] g.out = "panic" ->
                         /\ ret' = Panic /\ pc' = "done"
                         /\ UNCHANGED loc
                    [] OTHER ->
                         /\ loc' = [loc EXCEPT !.base = bs.t, !.fm = g.fm]
                         /\ pc' = "RowStructScanColumns"
                         /\ UNCHANGED ret
  /\ UNCHANGED <<op, dest, prior, cursor, rowsObj, concVars>>

\* Row.StructScan, lines 719-727: r.Columns() (lines 91-96) and getFields
RowStructScanColumns ==
  /\ pc = "RowStructScanColumns"
  /\ \/ /\ cursor' = Called(cursor, "Columns")
        /\ ret' = Return(Err("ErrColumns")) /\ pc' = "done"
        /\ UNCHANGED loc
     \/ \E cols \in ColumnLists :
          LET gf == getFields(loc.fm, cols) IN
          /\ cursor' = [Called(cursor, "Columns") EXCEPT !.known = TRUE, !.columns = cols]
          /\ IF gf.err # NoErr
             THEN ret' = Return(gf.err) /\ pc' = "done" /\ UNCHANGED loc
             ELSE loc' = [loc EXCEPT !.fields = gf.fields]
                  /\ pc' = "RowScan" /\ UNCHANGED ret
  /\ UNCHANGED <<fieldmapCache, fmHeap, op, dest, prior, rowsObj, concVars>>

\* Row.Scan, lines 78-82: a *sql.RawBytes among the field pointers
HasRawBytes(fields, t) ==
  \E i \in 1..Len(fields) : Fields(t)[fields[i] + 1].typ = "RawBytes"

\* Row.StructScan, lines 729-733, and Row.Scan, lines 60-89
RowScan ==
  /\ pc = "RowScan"
  /\ pc' = "done"
  /\ LET t == Elem(dest.type)
         n == Len(cursor.columns)
     IN
     IF setValuesPanics(loc.fields, t)
     THEN ret' = Panic /\ UNCHANGED <<cursor, dest, loc>>
     ELSE IF HasRawBytes(loc.fields, t)
     THEN ret' = Return(Err("RawBytesNotAllowed")) /\ UNCHANGED <<cursor, dest, loc>>
     ELSE \/ \* rows.Next() is false: ErrNoRows, the deferred Close runs
             /\ cursor' = CloseCursor(NextEnd(cursor))
             /\ ret' = Return(Err("ErrNoRows"))
             /\ UNCHANGED <<dest, loc>>
          \/ \* the first row decodes
             /\ cursor' = CloseCursor(Called(NextRow(cursor), "Scan"))
             /\ dest' = [dest EXCEPT !.rec = ScanInto(@, setValues(loc.fields, t), 1, 1, n)]
             /\ ret' = Return(NoErr)
             /\ UNCHANGED loc
          \/ \* decoding column j of the first row fails; the columns
             \* before it are already written
             \E j \in 1..n :
                /\ cursor' = CloseCursor(Called(NextRow(cursor), "Scan"))
                /\ dest' = [dest EXCEPT !.rec =
                              ScanInto(@, setValues(loc.fields, t), 1, 1, j - 1)]
                /\ ret' = Return(Err("ErrScan"))
                /\ loc' = [loc EXCEPT !.scanErr = TRUE]
  /\ UNCHANGED <<fieldmapCache, fmHeap, op, prior, rowsObj, concVars>>

\* ---------------------------------------------------- Queryx and *Rows
\* the dest arguments handed to Rows.StructScan: values, pointers to
\* values and slices
RowsTypes ==
  {<<b>> : b \in BaseNames} \cup {<<c, b>> : c \in {"ptr", "slice"}, b \in BaseNames}
RowsDests == {d \in Dests : d.type \in RowsTypes}

\* DB/Tx/qStmt.Queryx, lines 187-190, 274-277, 355-358: &Rows{Rows: *r}
\* dereferences the nil *sql.Rows of a failed query
Queryx ==
  /\ pc = "idle"
  /\ op' = "Rows" /\ dest' = NoDest /\ prior' = NoDest
  /\ loc' = NoLoc /\ rowsObj' = NoRows
  /\ \E ok \in BOOLEAN :
       IF ok
       THEN cursor' = NewCursor /\ ret' = NoRet /\ pc' = "rows"
       ELSE cursor' = NoCursor /\ ret' = Panic /\ pc' = "done"
  /\ UNCHANGED <<fieldmapCache, fmHeap, concVars>>

\* the owner of the *Rows calls the embedded sql.Rows.Next
RowsNext ==
  /\ pc = "rows"
  /\ \/ /\ cursor.open /\ cursor.pos < MaxRows
        /\ cursor' = [cursor EXCEPT !.pos = @ + 1, !.onRow = TRUE, !.calls = <<>>]
     \/ cursor' = [cursor EXCEPT !.open = FALSE, !.onRow = FALSE, !.calls = <<>>]
  /\ ret' = NoRet /\ loc' = [loc EXCEPT !.scanErr = FALSE]
  /\ UNCHANGED <<fieldmapCache, fmHeap, pc, op, dest, prior, rowsObj, concVars>>

\* Rows.StructScan, lines 451-458: the loop filling r.fields, stopping at
\* the first column the fieldmap does not have
RowsFieldsLoop(fm, columns) == getFieldsLoop(fm, columns, 1, [i \in 1..Len(columns) |-> 0])

\* Rows.StructScan, lines 426-466
RowsStructScan(d) ==
  /\ pc = "rows"
  /\ prior' = d
  /\ LET dt == d.type
         c0 == [cursor EXCEPT !.calls = <<>>]
         h0 == [fmHeap EXCEPT !.got = NoGot]
         stop(r, p) == /\ ret' = r /\ pc' = p /\ cursor' = c0
                       /\ fmHeap' = h0
                       /\ UNCHANGED <<fieldmapCache, rowsObj, loc>> /\ dest' = d
     IN
     IF Kind(dt) # "ptr"
     THEN stop(Return(Err("MustPassPointer")), "rows")
     ELSE
       \* lines 434-460, taken when the positions are not cached yet
       \E res \in
          IF rowsObj.started
          THEN {[out |-> "ok", err |-> NoErr, cache |-> fieldmapCache, heap |-> h0,
                 cur |-> c0, ro |-> rowsObj]}
          ELSE IF d.isNil             \* base.Type() on the zero Value
          THEN {[out |-> "panic", err |-> NoErr, cache |-> fieldmapCache, heap |-> h0,
                 cur |-> c0, ro |-> rowsObj]}
          ELSE LET g == getFieldmap(Elem(dt), fieldmapCache)
                   c1 == Called(c0, "Columns")
                   h1 == HeapAfter(fmHeap, g)
               IN
               IF g.out # "ok"
               THEN {[out |-> g.out, err |-> g.err, cache |-> g.cache, heap |-> h1,
                      cur |-> c0, ro |-> rowsObj]}
               ELSE {[out |-> "err", err |-> Err("ErrColumns"), cache |-> g.cache,
                      heap |-> h1, cur |-> c1, ro |-> rowsObj]}
                    \cup
                    {LET gf == RowsFieldsLoop(g.fm, cols)
                         ro == [started |-> gf.err = NoErr, fields |-> gf.fields,
                                nvalues |-> Len(cols)]
                     IN [out |-> IF gf.err = NoErr THEN "ok" ELSE "err", err |-> gf.err,
                         cache |-> g.cache, heap |-> h1,
                         cur |-> [c1 EXCEPT !.known = TRUE, !.columns = cols],
                         ro |-> ro]
                     : cols \in IF ~cursor.open THEN {}
                                ELSE IF cursor.known THEN {cursor.columns}
                                ELSE ColumnLists} :
         /\ fieldmapCache' = res.cache /\ fmHeap' = res.heap
         /\ rowsObj' = res.ro
         /\ CASE res.out = "err" ->
                   /\ ret' = Return(res.err) /\ pc' = "rows" /\ cursor' = res.cur
                   /\ dest' = d /\ UNCHANGED loc
              [] res.out = "panic" ->
                   /\ ret' = Panic /\ pc' = "done" /\ cursor' = res.cur
                   /\ dest' = d /\ UNCHANGED loc
              [] OTHER ->
                   \* lines 461-465: the field pointers, r.Scan, return nil
                   \* (Field on the zero Value behind a nil pointer panics too)
                   IF \/ d.isNil /\ Len(res.ro.fields) > 0
                      \/ setValuesPanics(res.ro.fields, Elem(dt))
                   THEN /\ ret' = Panic /\ pc' = "done" /\ cursor' = res.cur
                        /\ dest' = d /\ UNCHANGED loc
                   ELSE /\ pc' = "rows" /\ ret' = Return(NoErr)
                        /\ cursor' = Called(res.cur, "Scan")
                        /\ LET n == Len(res.ro.fields)
                               live == cursor.open /\ cursor.onRow
                           IN
                           \/ \* Scan fails on a closed cursor or without a row
                              /\ ~live
                              /\ dest' = d /\ loc' = [loc EXCEPT !.scanErr = TRUE]
                           \/ \* Scan fails decoding column j
                              /\ live
                              /\ \E j \in 1..n :
                                   dest' = [d EXCEPT !.rec =
                                      ScanInto(@, setValues(res.ro.fields, Elem(dt)),
                                               cursor.pos, 1, j - 1)]
                              /\ loc' = [loc EXCEPT !.scanErr = TRUE]
                           \/ \* Scan succeeds
                              /\ live
                              /\ dest' = [d EXCEPT !.rec =
                                    ScanInto(@, setValues(res.ro.fields, Elem(dt)),
                                             cursor.pos, 1, n)]
                              /\ loc' = [loc EXCEPT !.scanErr = FALSE]
  /\ UNCHANGED <<op, concVars>>

\* the owner closes the *Rows and is done with it
RowsClose ==
  /\ pc = "rows"
  /\ cursor' = [cursor EXCEPT !.open = FALSE, !.onRow = FALSE, !.calls = <<>>]
  /\ pc' = "done" /\ ret' = NoRet
  /\ UNCHANGED <<fieldmapCache, fmHeap, op, dest, prior, loc, rowsObj, concVars>>

\* the caller takes the result and goes on; the cache outlives the call
Continue ==
  /\ pc = "done" /\ ret.kind # "panic"
  /\ pc' = "idle" /\ op' = "none" /\ dest' = NoDest /\ prior' = NoDest
  /\ cursor' = NoCursor /\ loc' = NoLoc /\ ret' = NoRet /\ rowsObj' = NoRows
  /\ fmHeap' = [fmHeap EXCEPT !.got = NoGot]
  /\ UNCHANGED <<fieldmapCache, concVars>>

\* ------------------------------------------- concurrent getFieldmap callers
\* Every caller runs getFieldmap (lines 646-672) on its own goroutine.  The
\* read at line 652 and the write at line 670 of the unguarded map each take
\* time: they begin and end in separate steps.  An access that overlaps a
\* write of another caller is a data race, whose outcome the Go runtime
\* leaves open: the access may work, see or leave a stale map, or the
\* runtime stops the process ("concurrent map read and map write").
ConcTypes == {<<"User">>, <<"ptr", "User">>, <<"Dup">>, <<"int">>, <<"ptr", "int">>,
              <<"ptr", "ptr", "User">>, <<"ptr", "slice", "User">>}

Others(p) == Callers \ {p}
Writing(q) == cpc[q] = "writing"
Accessing(q) == cpc[q] \in {"reading", "writing"}

\* lines 648-652: BaseStructType, then the lookup fieldmapCache[t] begins
GfCall(p, t) ==
  /\ ~crashed /\ cpc[p] = "idle"
  /\ carg' = [carg EXCEPT ![p] = t]
  /\ LET bs == BaseStructType(t) IN
     IF bs.err # NoErr
     THEN /\ cpc' = [cpc EXCEPT ![p] = "done"]
          /\ cret' = [cret EXCEPT ![p] = "err"]
          /\ UNCHANGED <<ctype, raced>>
     ELSE /\ cpc' = [cpc EXCEPT ![p] = "reading"]
          /\ ctype' = [ctype EXCEPT ![p] = bs.t]
          /\ raced' = [q \in Callers |->
                         IF \E w \in Others(p) : Writing(w)
                         THEN (raced[q] \/ q = p \/ Writing(q))
                         ELSE raced[q]]
          /\ UNCHANGED cret
  /\ UNCHANGED <<fieldmapCache, cfm, crashed, seqVars>>

\* lines 652-657: the lookup ends; a hit returns the cached fieldmap
GfLookup(p) ==
  /\ ~crashed /\ cpc[p] = "reading"
  /\ raced' = [raced EXCEPT ![p] = FALSE]
  /\ LET t == ctype[p]
         hit(fm) == /\ cpc' = [cpc EXCEPT ![p] = "done"]
                    /\ cfm' = [cfm EXCEPT ![p] = fm]
                    /\ cret' = [cret EXCEPT ![p] = "ok"]
                    /\ UNCHANGED crashed
         miss == /\ cpc' = [cpc EXCEPT ![p] = "building"]
                 /\ cfm' = [cfm EXCEPT ![p] = EmptyMap]
                 /\ UNCHANGED <<cret, crashed>>
     IN
     IF ~raced[p]
     THEN IF t \in DOMAIN fieldmapCache THEN hit(fieldmapCache[t]) ELSE miss
     ELSE \/ miss
          \/ \E fm \in {fieldmapCache[k] : k \in DOMAIN fieldmapCache \cap {t}}
                       \cup {cfm[w] : w \in {q \in Others(p) : ctype[q] = t
                                                /\ cpc[q] \in {"writing", "done"}}} :
               hit(fm)
          \/ crashed' = TRUE /\ UNCHANGED <<cpc, cfm, cret>>
  /\ UNCHANGED <<fieldmapCache, carg, ctype, seqVars>>

\* lines 659-669: the caller fills its own fieldmap; NumField panics when
\* the type is not a struct
GfBuild(p) ==
  /\ ~crashed /\ cpc[p] = "building"
  /\ IF Kind(ctype[p]) # "struct"
     THEN crashed' = TRUE /\ UNCHANGED <<cpc, cfm>>
     ELSE /\ cfm' = [cfm EXCEPT ![p] = BuildFieldmap(ctype[p])]
          /\ cpc' = [cpc EXCEPT ![p] = "built"]
          /\ UNCHANGED crashed
  /\ UNCHANGED <<fieldmapCache, carg, ctype, cret, raced, seqVars>>

\* line 670: the store fieldmapCache[t] = fm begins
GfStoreBegin(p) ==
  /\ ~crashed /\ cpc[p] = "built"
  /\ cpc' = [cpc EXCEPT ![p] = "writing"]
  /\ raced' = [q \in Callers |->
                 IF \E a \in Others(p) : Accessing(a)
                 THEN (raced[q] \/ q = p \/ Accessing(q))
                 ELSE raced[q]]
  /\ UNCHANGED <<fieldmapCache, carg, ctype, cfm, cret, crashed, seqVars>>

\* lines 670-671: the store ends and the fieldmap is returned
GfStoreEnd(p) ==
  /\ ~crashed /\ cpc[p] = "writing"
  /\ raced' = [raced EXCEPT ![p] = FALSE]
  /\ LET t == ctype[p]
         stored == [k \in DOMAIN fieldmapCache \cup {t} |->
                      IF k = t THEN cfm[p] ELSE fieldmapCache[k]]
         finish == /\ cpc' = [cpc EXCEPT ![p] = "done"]
                   /\ cret' = [cret EXCEPT ![p] = "ok"]
                   /\ UNCHANGED crashed
     IN
     IF ~raced[p]
     THEN fieldmapCache' = stored /\ finish
     ELSE \/ fieldmapCache' = stored /\ finish
          \/ UNCHANGED fieldmapCache /\ finish
          \/ crashed' = TRUE /\ UNCHANGED <<fieldmapCache, cpc, cret>>
  /\ UNCHANGED <<carg, ctype, cfm, seqVars>>

\* the caller has its result and may call again
GfReturn(p) ==
  /\ ~crashed /\ cpc[p] = "done"
  /\ cpc' = [cpc EXCEPT ![p] = "idle"]
  /\ carg' = [carg EXCEPT ![p] = <<"int">>]
  /\ ctype' = [ctype EXCEPT ![p] = <<"int">>]
  /\ cfm' = [cfm EXCEPT ![p] = EmptyMap]
  /\ cret' = [cret EXCEPT ![p] = "none"]
  /\ UNCHANGED <<fieldmapCache, raced, crashed, seqVars>>

NextConc ==
  \/ \E p \in Callers, t \in ConcTypes : GfCall(p, t)
  \/ \E p \in Callers : GfLookup(p)
  \/ \E p \in Callers : GfBuild(p)
  \/ \E p \in Callers : GfStoreBegin(p)
  \/ \E p \in Callers : GfStoreEnd(p)
  \/ \E p \in Callers : GfReturn(p)

SpecConc == Init /\ [][NextConc]_vars

Next ==
  \/ \E d \in Dests : SelectQuery(d)
  \/ StructScanResolve
  \/ StructScanColumns
  \/ StructScanRow
  \/ SelectClose
  \/ \E d \in Dests : GetQueryRowx(d)
  \/ RowStructScanResolve
  \/ RowStructScanColumns
  \/ RowScan
  \/ Queryx
  \/ RowsNext
  \/ \E d \in RowsDests : RowsStructScan(d)
  \/ RowsClose
  \/ Continue

Spec == Init /\ [][Next]_vars

\* ================================================================ claims
\* what the claims speak of, stated apart from the operators above

\* Select's destination: a live pointer to a slice of structs or of pointers
\* to structs; SelectRecord is the struct type
ValidSelectDest(d) ==
  /\ Kind(d.type) = "ptr" /\ ~d.isNil
  /\ Kind(Elem(d.type)) = "slice"
  /\ LET e == Elem(Elem(d.type)) IN
     \/ Kind(e) = "struct"
     \/ Kind(e) = "ptr" /\ Kind(Elem(e)) = "struct"
SelectRecord(d) ==
  LET e == Elem(Elem(d.type)) IN IF Kind(e) = "ptr" THEN Elem(e) ELSE e

\* Get's destination: a live pointer to a struct
ValidGetDest(d) == Kind(d.type) = "ptr" /\ ~d.isNil /\ Kind(Elem(d.type)) = "struct"

\* a struct all of whose fields reflection may hand out
Scannable(t) == \A i \in 1..NumField(t) : Fields(t)[i].name[1] \in 65..90

\* the resolved name of a field: the tag verbatim, else the declared name
\* in lower case
LowerCase(s) == [i \in 1..Len(s) |-> IF s[i] >= 65 /\ s[i] <= 90 THEN s[i] + 32 ELSE s[i]]
Resolved(f) == IF Len(f.tag) > 0 THEN f.tag ELSE LowerCase(f.name)
ResolvedNames(t) == {Resolved(Fields(t)[i]) : i \in 1..NumField(t)}

\* the place (from 1) of the field a column name is mapped to: the last
\* field in declaration order that resolves to the name
MappedField(t, c) ==
  CHOOSE i \in 1..NumField(t) :
    /\ Resolved(Fields(t)[i]) = c
    /\ \A j \in (i + 1)..NumField(t) : Resolved(Fields(t)[j]) # c

IsPermutationOf(cols, S) ==
  Len(cols) = Cardinality(S) /\ {cols[i] : i \in 1..Len(cols)} = S

CallsOf(name) == Cardinality({i \in 1..Len(cursor.calls) : cursor.calls[i] = name})

SelectDone == pc = "done" /\ op = "Select"
GetDone == pc = "done" /\ op = "Get"

FirstUnmapped(cols, fm) ==
  cols[CHOOSE i \in 1..Len(cols) :
         cols[i] \notin DOMAIN fm /\ \A j \in 1..(i - 1) : cols[j] \in DOMAIN fm]

\* C2: when the column list of the cursor has a name the descriptor lacks,
\* Select and Get return the unmapped-column error naming the first such
\* column, no Next and no Scan was called on the cursor, and the destination
\* is as it was before the call.
C2_UnmappedColumn ==
  (/\ SelectDone \/ GetDone
   /\ cursor.known
   /\ \E i \in 1..Len(cursor.columns) : cursor.columns[i] \notin DOMAIN loc.fm)
  => /\ ret = Return(ErrName("CouldNotFindName", FirstUnmapped(cursor.columns, loc.fm)))
     /\ CallsOf("Next") = 0 /\ CallsOf("Scan") = 0 /\ cursor.pos = 0
     /\ dest = prior

\* C2 witness: Select into a non-empty []User, columns ["id","email"]
C2_Witness ==
  /\ SelectDone
  /\ dest.type = <<"ptr", "slice", "User">> /\ Len(prior.slice) = 1
  /\ cursor.columns = <<s_id, s_email>>
  /\ ret = Return(ErrName("CouldNotFindName", s_email))

\* C3 (as claimed): Get never returns while the cursor it obtained is open.
C3_GetClosesCursor ==
  (GetDone /\ cursor.exists /\ ret.kind = "return") => ~cursor.open

\* C4: Select returns (or panics) with the cursor it obtained closed, the
\* deferred Close being the last call on it, whatever StructScan did; when
\* the query failed there is no cursor and the query's error is returned.
C4_SelectClosesCursor ==
  SelectDone =>
    IF cursor.exists
    THEN /\ ~cursor.open
         /\ Len(cursor.calls) > 0
         /\ cursor.calls[Len(cursor.calls)] = "Close"
         /\ CallsOf("Close") = 1
    ELSE ret = Return(Err("ErrQuery")) /\ dest = prior

\* C4 witness: a Select whose second row failed to decode
C4_Witness ==
  /\ SelectDone /\ ret = Return(Err("ErrScan")) /\ cursor.pos = 2
  /\ cursor.exists /\ ~cursor.open

\* C5 (as claimed): no caller writes the cache while another caller reads
\* or writes it, and once every caller that asked for the struct type User
\* has returned, the cache holds User's descriptor.
C5_NoDataRace ==
  /\ \A p \in Callers, q \in Callers :
       p # q => ~(cpc[p] = "writing" /\ cpc[q] \in {"reading", "writing"})
  /\ (\A p \in Callers : cpc[p] = "done" /\ ctype[p] = <<"User">> /\ cret[p] = "ok")
        => <<"User">> \in DOMAIN fieldmapCache

\* C6: a Get that asked its cursor for a row and got none returns ErrNoRows
\* with the destination as it was; a Get whose first row decoded returns nil,
\* has advanced to and decoded that one row only, and the destination holds
\* the first row's value in every field a column is mapped to and its old
\* value in every other field.
C6_GetRows ==
  /\ (GetDone /\ CallsOf("Next") > 0 /\ cursor.pos = 0)
       => ret = Return(Err("ErrNoRows")) /\ dest = prior
  /\ (GetDone /\ ValidGetDest(dest) /\ cursor.pos > 0 /\ ~loc.scanErr)
       => LET R == Elem(dest.type)
              cols == cursor.columns
              last(i) == \A j \in (i + 1)..Len(cols) : cols[j] # cols[i]
          IN /\ ret = Return(NoErr)
             /\ cursor.pos = 1 /\ CallsOf("Next") = 1 /\ CallsOf("Scan") = 1
             /\ \A i \in 1..Len(cols) :
                  last(i) => dest.rec[MappedField(R, cols[i])] = CellValue(1, i)
             /\ \A k \in 1..NumField(R) :
                  (\A i \in 1..Len(cols) : MappedField(R, cols[i]) # k)
                     => dest.rec[k] = prior.rec[k]
             /\ dest.slice = prior.slice

\* C6 witness: Get into a pre-filled User, columns ["name","id"], first row
\* decoded
C6_Witness ==
  /\ GetDone /\ ret = Return(NoErr)
  /\ dest.type = <<"ptr", "User">> /\ prior.rec = <<5, 5>>
  /\ cursor.columns = <<s_name, s_id>>
  /\ dest.rec = <<12, 11>>

\* C7 (as claimed): whenever the cursor's Scan failed on a row inside a
\* scanning operation (StructScan, Row.StructScan, Rows.StructScan), the
\* operation returned a non-nil error.
C7_ScanErrorReturned ==
  (loc.scanErr /\ cursor.pos > 0 /\ ret.kind = "return") => ret.err # NoErr

\* C8: when the decode of row k fails in Select, Select returns that error,
\* the destination is its prior content followed by the records of rows
\* 1..k-1 in row order, row k is not appended, and the failed Scan is the
\* last thing read from the cursor (k Next calls, k Scan calls, then Close).
C8_FirstScanError ==
  (SelectDone /\ loc.scanErr)
  => LET k == cursor.pos
         cols == cursor.columns
         base == Len(prior.slice)
         last(i) == \A j \in (i + 1)..Len(cols) : cols[j] # cols[i]
     IN /\ ret = Return(Err("ErrScan"))
        /\ Len(dest.slice) = base + k - 1
        /\ SubSeq(dest.slice, 1, base) = prior.slice
        /\ \A r \in 1..(k - 1), i \in 1..Len(cols) :
             last(i) => dest.slice[base + r][loc.fm[cols[i]] + 1] = CellValue(r, i)
        /\ CallsOf("Next") = k /\ CallsOf("Scan") = k
        /\ SubSeq(cursor.calls, Len(cursor.calls) - 1, Len(cursor.calls))
             = <<"Scan", "Close">>

\* C8 witness: the second row fails after the first was appended to a
\* destination that already held an element
C8_Witness ==
  /\ SelectDone /\ loc.scanErr /\ cursor.pos = 2
  /\ Len(prior.slice) = 1 /\ Len(dest.slice) = 2

\* C9 (as claimed): Select and Get handed a destination of the wrong shape
\* return an invalid-destination error, without a crash and without a
\* Columns, Next or Scan call on the cursor.
InvalidDestErrors == {"MustPassPointer", "DestMustBeSlice", "DestMustBeStruct"}
C9_InvalidDestRejected ==
  (/\ pc = "done" /\ cursor.exists
   /\ \/ op = "Select" /\ ~ValidSelectDest(prior)
      \/ op = "Get" /\ ~ValidGetDest(prior))
  => /\ ret.kind = "return" /\ ret.err.kind \in InvalidDestErrors
     /\ CallsOf("Columns") = 0 /\ CallsOf("Next") = 0 /\ CallsOf("Scan") = 0

\* C10: every descriptor in the cache has exactly the resolved names of the
\* struct's fields as keys (tag verbatim, else lower-cased declared name),
\* and maps each to the position (from 0) of the last field that resolves
\* to it.
C10_Descriptor ==
  \A t \in DOMAIN fieldmapCache :
    /\ Kind(t) = "struct"
    /\ DOMAIN fieldmapCache[t] = ResolvedNames(t)
    /\ \A n \in ResolvedNames(t) : fieldmapCache[t][n] = MappedField(t, n) - 1

\* C10 witness: the descriptor of {A `db:"name"`; Name; C `db:"Cc"`}
C10_Witness ==
  /\ <<"Dup">> \in DOMAIN fieldmapCache
  /\ fieldmapCache[<<"Dup">>] = [n \in {s_name, s_Cc} |-> IF n = s_name THEN 1 ELSE 2]

\* ---------------------------------------------------------------- C11
\* what BaseStructType's comment (lines 631-632) promises: a struct type
\* for a struct or a pointer to a struct, an error for anything else
StructOrPtrToStruct(t) ==
  \/ Kind(t) = "struct"
  \/ Kind(t) = "ptr" /\ Kind(Elem(t)) = "struct"

\* caller p's BaseStructType call returned an error / returned a type
BaseStructRejected(p) == cpc[p] = "done" /\ cret[p] = "err"
BaseStructAccepted(p) == cpc[p] # "idle" /\ ~BaseStructRejected(p)

\* C11: BaseStructType returns without error exactly when its argument is a
\* struct or a pointer to a struct, the type it returns is then that struct,
\* and getFieldmap never goes on (lookup, NumField loop, store) with a type
\* that is not a struct
C11_BaseStructType ==
  \A p \in Callers :
    cpc[p] # "idle" =>
      /\ BaseStructAccepted(p) <=> StructOrPtrToStruct(carg[p])
      /\ BaseStructAccepted(p) => Kind(ctype[p]) = "struct"
      /\ cpc[p] \in {"reading", "building", "built", "writing"}
           => Kind(ctype[p]) = "struct"

\* ---------------------------------------------------------------- C12
\* the descriptor a fresh build gives for record type t
FreshDescriptor(t) == [n \in ResolvedNames(t) |-> MappedField(t, n) - 1]

\* C12: under sequential calls the first getFieldmap call for a record type
\* T builds its descriptor and stores it; every later call for T or for
\* pointer-to-T returns that stored instance without building again, equal
\* in value to a fresh build; the entry is never changed or removed.
\* fmHeap.made counts every fieldmap ever made for a type, so: each type a
\* fieldmap was made for is still in the cache, exactly one was made for
\* it, the cache holds that one with the content of a fresh build, and a
\* call that returned a fieldmap returned the very instance the cache holds.
C12_CacheIdempotent ==
  /\ DOMAIN fmHeap.made = DOMAIN fieldmapCache
  /\ DOMAIN fmHeap.held = DOMAIN fieldmapCache
  /\ \A t \in DOMAIN fieldmapCache :
       /\ fmHeap.made[t] = 1 /\ fmHeap.held[t] = 1
       /\ fieldmapCache[t] = FreshDescriptor(t)
  /\ fmHeap.got.inst # 0 =>
       LET T == fmHeap.got.t IN
       /\ fmHeap.got.arg \in {T, <<"ptr">> \o T}
       /\ T \in DOMAIN fieldmapCache
       /\ fmHeap.got.inst = fmHeap.held[T]
       /\ fmHeap.got.fm = fieldmapCache[T]
       /\ fmHeap.got.fm = FreshDescriptor(T)

\* C12 witness: a later call, asked with pointer-to-User, was answered from
\* the cache with the instance built by an earlier call
C12_Witness ==
  /\ fmHeap.got.arg = <<"ptr", "User">> /\ fmHeap.got.t = <<"User">>
  /\ ~fmHeap.got.built /\ fmHeap.got.inst = 1
  /\ fmHeap.got.fm = [n \in {s_id, s_name} |-> IF n = s_id THEN 0 ELSE 1]

\* ---------------------------------------------------------------- C13
\* C13 (as claimed): when the query fails inside QueryRowx, Get has no
\* cursor to touch, returns the query's error without a crash, and leaves
\* the destination as it was.
C13_QueryFailureReturned ==
  (GetDone /\ ~cursor.exists)
  => /\ ret = Return(Err("ErrQuery"))
     /\ cursor.calls = <<>>
     /\ dest = prior

\* ---------------------------------------------------------------- C14
\* the rows of the running Select whose rows.Scan returned nil
ScannedRows == CallsOf("Scan") - (IF loc.scanErr THEN 1 ELSE 0)

\* the destination is a collection: a live pointer to a slice
IsCollection(d) == Kind(d.type) = "ptr" /\ ~d.isNil /\ Kind(Elem(d.type)) = "slice"

\* C14: at every point of a Select, and so when it has returned or failed,
\* nothing but the slice behind dest has changed, the elements dest held
\* before the call are still its first elements, unchanged and in order,
\* and they are followed by exactly one element per row whose Scan
\* succeeded, in row order, element r holding the values of row r.  A
\* cursor without rows leaves dest as it was and Select returns nil.
C14_SelectOnlyAppends ==
  op = "Select" =>
    LET base == Len(prior.slice)
        cols == cursor.columns
        last(i) == \A j \in (i + 1)..Len(cols) : cols[j] # cols[i]
    IN /\ dest.type = prior.type /\ dest.isNil = prior.isNil /\ dest.rec = prior.rec
       /\ Len(dest.slice) >= base
       /\ SubSeq(dest.slice, 1, base) = prior.slice
       /\ IsCollection(prior) =>
            /\ Len(dest.slice) = base + ScannedRows
            /\ \A r \in 1..ScannedRows, i \in 1..Len(cols) :
                 last(i) => dest.slice[base + r][MappedField(SelectRecord(prior), cols[i])]
                              = CellValue(r, i)
       /\ (pc = "done" /\ CallsOf("Next") = 1 /\ cursor.pos = 0)
            => ret = Return(NoErr) /\ dest = prior

\* C14 witness: a destination that held one element has it followed by the
\* two rows of the cursor
C14_Witness ==
  /\ SelectDone /\ ret = Return(NoErr) /\ cursor.pos = 2
  /\ prior.slice = <<<<5, 5>>>>
  /\ Len(dest.slice) = 3 /\ dest.slice[1] = <<5, 5>>

\* C14 witness of the empty result: dest keeps its element
C14_WitnessEmpty ==
  /\ SelectDone /\ ret = Return(NoErr) /\ cursor.pos = 0 /\ CallsOf("Next") = 1
  /\ dest.slice = <<<<5, 5>>>>

====
